---- MODULE Spec2Model ----
(***************************************************************************)
(* A model of the JAMA REST client (jamarest.py): the rate-limited,        *)
(* retrying GET primitive `ask`, the write primitive `_request` with       *)
(* put/post/_delete, the paginated fetch `ask_big`, the operations built  *)
(* on them, the lookup table of `get_lookup`, and the activity report      *)
(* (checkjamaactivity.py).                                                 *)
(*                                                                         *)
(* The client is single-threaded: `pc` is the position of the one thread   *)
(* of control.  The server and the network are the environment: every GET  *)
(* or write draws its outcome (a connection failure or an HTTP status)     *)
(* and its latency from small sets.  Time is counted in clock ticks of     *)
(* 1/TicksPerSecond seconds.                                               *)
(***************************************************************************)
EXTENDS Integers, Sequences, FiniteSets, TLC

VARIABLES
    now,               \* time.time(), in ticks
    last_time_called,  \* rate_limited: last_time_called[0] of the decorated ask
    pc,                \* position of the client's thread of control
    caller,            \* who called ask: "top" (the user) or "ask_big"
    response,          \* ask: the local `response`
    gets,              \* the GETs of the current ask call: outcome, send and receive time
    result,            \* how the last finished top-level operation ended
    lastReqAt,         \* time the most recent outgoing HTTP request was sent (-1: none yet)
    prevReqAt,         \* time the request before that one was sent (-1: none yet)
    nReq,              \* number of outgoing HTTP requests so far
    invocations,       \* start time of func() in each rate_limited_function invocation
    nOps,              \* number of top-level operations started
    op,                \* the top-level operation in progress (or the last one)
    server,            \* the resource the server holds at the path the operation queries
    start_at,          \* ask_big: start_at
    data,              \* ask_big: data
    pages,             \* ask_big: the args (startAt, maxResults) of each page request
    envelopes,         \* ask_big: what each page envelope decoded so far held
    name,              \* ask_id: the value searched for
    arg,               \* the arguments of the operation in progress
    local,             \* the locals of the operation in progress
    writes,            \* the PUT and POST requests sent so far, with the server's answers
    locked             \* the server's lock on the test run

askVars == <<caller, response, gets>>
bigVars == <<start_at, data, pages, envelopes>>
opVars == <<nOps, op, server, name, arg>>
writeVars == <<writes, locked>>
vars == <<now, last_time_called, pc, caller, response, gets, result,
          lastReqAt, prevReqAt, nReq, invocations, nOps, op, server, start_at, data,
          pages, envelopes, name, arg, local, writes, locked>>

----------------------------------------------------------------------------
(* Bounds of the model *)

\* clock resolution: ticks per second
TicksPerSecond == 24
\* the clock reads Epoch when the client is constructed (time.time() is far from 0.0)
Epoch == 100
\* the caller waits 0..MaxIdle ticks before it starts its next operation
MaxIdle == 2
\* one HTTP exchange takes 0..MaxLatency ticks
MaxLatency == 1
\* top-level operations per behaviour of the client that mixes reads and writes
MaxOps == 2
\* largest totalResults of a collection on the server
MaxTotal == 101
\* page requests one ask_big call may issue in the model
MaxPages == 4
\* the server's items carry the same name in runs of NameBlock consecutive items
NameBlock == 20
\* the server's item at position i has id IdBase + i
IdBase == 1000
\* largest collection the test-run operations meet (test groups of a plan)
MaxGroups == 2
\* add_tests_to_plan: at most MaxTests test cases per call
MaxTests == 2
\* days in the window of the activity report (the script's window has 365)
NumDays == 3

(* Program constants *)

\* @rate_limited(12)
max_per_second == 12
\* jama.__init__(..., retry_delay=2), seconds
retry_delay == 2

\* rate_limited: min_interval = 1.0 / float(max_per_second), in ticks
min_interval == TicksPerSecond \div max_per_second

\* time.sleep(self.retry_delay), in ticks
RetryDelayTicks == retry_delay * TicksPerSecond

\* ask_big: max_results = 50
max_results == 50

----------------------------------------------------------------------------
(* The environment: what one HTTP exchange can produce *)

\* requests.get raised requests.exceptions.ConnectionError: there is no status
ConnErr == -1

ConnectionError == "ConnectionError"

\* HTTP status codes the server answers with
Statuses == {200, 299, 300, 429, 500}

\* outcome of requests.get / requests.put / requests.post: it raises
\* requests.exceptions.ConnectionError or it returns a response
Outcomes == {ConnErr} \cup Statuses

\* what the server answers to a PUT or POST: a status and the kind of body, "ok" (JSON
\* with meta.status "OK" and meta.id), "bad_request" (JSON with meta.status
\* "Bad Request" and meta.message), "error" (JSON with another meta.status and no id),
\* "not_json" (an HTML error page); or the connection fails
WriteOutcomes ==
    { [status |-> ConnErr, body |-> "none"],
      [status |-> 200, body |-> "ok"],
      [status |-> 200, body |-> "bad_request"],
      [status |-> 400, body |-> "bad_request"],
      [status |-> 401, body |-> "error"],
      [status |-> 401, body |-> "not_json"],
      [status |-> 500, body |-> "error"],
      [status |-> 500, body |-> "not_json"] }

NoResponse == [status |-> 0]

Returned(v) == [kind |-> "returned", value |-> v, error |-> "none"]
Raised(e) == [kind |-> "raised", value |-> NoResponse, error |-> e]
NoResult == [kind |-> "none", value |-> NoResponse, error |-> "none"]

----------------------------------------------------------------------------
(* The server's resources and the JSON envelopes it answers with *)

\* the item at position i (1-based) of a collection
Item(i) == [id |-> IdBase + i, name |-> (i - 1) \div NameBlock]

\* names the caller of ask_id may search for: those of the items, and one no item has
Names == 0 .. (MaxTotal \div NameBlock) + 1

Collection(total) == [kind |-> "collection", total |-> total]

\* a single resource, a test run, with the given fields
Single(f) == [kind |-> "single", total |-> 0, fields |-> f]

\* the fields of the test run the server holds: the two fields the server manages
\* may each be present or not
TestrunFields ==
    { [name |-> "run", testRunSteps |-> <<"NOT_RUN">>],
      [name |-> "run", testRunSteps |-> <<"NOT_RUN">>, testRunStatus |-> "NOT_RUN"],
      [name |-> "run", testRunSteps |-> <<"NOT_RUN">>, executionDate |-> "2019-04-15"],
      [name |-> "run", testRunSteps |-> <<"NOT_RUN">>, testRunStatus |-> "NOT_RUN",
       executionDate |-> "2019-04-15"] }

\* step lists a caller checks in
StepLists == { <<"PASSED">>, <<"PASSED", "FAILED">> }

Min(a, b) == IF a < b THEN a ELSE b

\* the slice of the collection the server returns for startAt = s, maxResults = m
PageItems(s, m) ==
    IF s >= server.total THEN <<>>
    ELSE [k \in 1 .. (Min(s + m, server.total) - s) |-> Item(s + k)]

\* a collection whose page envelopes hold the fields `has` out of "data", "linked"
\* and "total" (meta.pageInfo.totalResults)
PageEnvelope(total, has) == [kind |-> "envelope", total |-> total, has |-> has]

\* the fields of the page envelope of the server's resource: a plain collection
\* answers with "data" and the total, and no "linked" table
EnvelopeFields == IF server.kind = "envelope" THEN server.has ELSE {"data", "total"}

\* response.json() of a response to a page request: on success the page envelope
\* with "data", "linked" (the items of the "linked" table, one per item of the page)
\* and meta.pageInfo.totalResults, as far as the server sends them, or for a single
\* resource the envelope whose "data" is the object; on an error status an envelope
\* with none of them
Json(r, s, m) ==
    IF r.status >= 300
      THEN [hasData |-> FALSE, isObject |-> FALSE, data |-> <<>>,
            hasLinked |-> FALSE, linked |-> <<>>,
            hasTotal |-> FALSE, total |-> 0]
      ELSE IF server.kind = "single"
      THEN [hasData |-> TRUE, isObject |-> TRUE,
            data |-> [id |-> IdBase, fields |-> server.fields],
            hasLinked |-> FALSE, linked |-> <<>>,
            hasTotal |-> FALSE, total |-> 0]
      ELSE [hasData |-> "data" \in EnvelopeFields, isObject |-> FALSE,
            data |-> IF "data" \in EnvelopeFields THEN PageItems(s, m) ELSE <<>>,
            hasLinked |-> "linked" \in EnvelopeFields,
            linked |-> IF "linked" \in EnvelopeFields THEN PageItems(s, m) ELSE <<>>,
            hasTotal |-> "total" \in EnvelopeFields,
            total |-> IF "total" \in EnvelopeFields THEN server.total ELSE 0]

----------------------------------------------------------------------------
(* rate_limited *)

\* left_to_wait = min_interval - elapsed, with elapsed = time.time() - last_time_called[0]
LeftToWait(t) == min_interval - (t - last_time_called)

\* rate_limited_function up to the call of func: sleep left_to_wait when it is positive.
\* The value is the time at which func starts.
StartAfterWait(t) == IF LeftToWait(t) > 0 THEN t + LeftToWait(t) ELSE t

\* rate_limited_function after func returned: last_time_called[0] = time.time()
RecordCall(t) == t

----------------------------------------------------------------------------
(* jama.ask_id, after ask_big returned resp *)

PyFalse == [py |-> "False", int |-> 0]
PyInt(n) == [py |-> "int", int |-> n]

\* positions of the items of resp whose field equals n
Matches(resp, n) == {k \in 1 .. Len(resp) : resp[k].name = n}

\* (mutant) the last match instead of the first
LastMatch(resp, n) ==
    resp[CHOOSE k \in Matches(resp, n) : \A j \in Matches(resp, n) : k >= j].id

\* next(item["id"] for item in resp if item[field] == name): the first match
FirstMatch(resp, n) ==
    resp[CHOOSE k \in Matches(resp, n) : \A j \in Matches(resp, n) : k <= j].id

\* if resp: ... else: return False
IsTruthy(resp) == Len(resp) > 0

\* ask_id, lines 156-162
AskIdResult(resp, n) ==
    IF IsTruthy(resp)
      THEN IF Matches(resp, n) # {}
             THEN Returned(PyInt(FirstMatch(resp, n)))
             ELSE Raised("Could not find")
      ELSE Returned(PyFalse)

----------------------------------------------------------------------------
(* jama.ask_big *)

\* ask_big: start_at = start_at + max_results
NextStartAt(s) == s + max_results

\* (mutant) the loop ends only when the offset hits the total exactly
LoopDoneExact(s, total) == s = total

\* (mutant) the loop ends only once the offset has passed the total
LoopDoneStrict(s, total) == s > total

\* ask_big: if start_at >= resp["meta"]["pageInfo"]["totalResults"]: break
LoopDone(s, total) == s >= total

\* ask_big: data = data + resp["data"]
Accumulate(d, page) == d \o page

\* dict without key k: del d[k]
Remove(d, k) == [x \in DOMAIN d \ {k} |-> d[x]]

\* dict with d[k] = v
Put(d, k, v) == [x \in DOMAIN d \cup {k} |-> IF x = k THEN v ELSE d[x]]

\* checkin_runsteps, lines 647-651: try: del fields["testRunStatus"];
\* del fields["executionDate"]; except KeyError: pass
DelManaged(f) ==
    IF "testRunStatus" \notin DOMAIN f THEN f
    ELSE IF "executionDate" \notin DOMAIN f THEN Remove(f, "testRunStatus")
    ELSE Remove(Remove(f, "testRunStatus"), "executionDate")

\* checkin_runsteps, lines 646-659: the fields to submit (tester an id, or 0 for None;
\* resulttext "" for None)
CheckinFields(f, a) ==
    LET f1 == Put(DelManaged(f), "testRunSteps", a.steps)
        f2 == IF a.tester # 0 THEN Put(f1, "assignedTo", a.tester) ELSE f1
    IN  IF a.resulttext # "" THEN Put(f2, "actualResults", a.resulttext) ELSE f2

\* ask_big returns v (a dict when isObject, else a list) to its caller, which goes on
BigReturn(v, isObject) ==
    CASE op = "ask_id" ->
           /\ pc' = "idle"
           /\ result' = IF isObject THEN Raised("TypeError") ELSE AskIdResult(v, name)
           /\ UNCHANGED local
      [] op = "checkout_runsteps" ->
           \* run["fields"]["testRunSteps"]
           /\ pc' = "idle"
           /\ result' = IF isObject THEN Returned(v.fields.testRunSteps)
                        ELSE Raised("TypeError")
           /\ UNCHANGED local
      [] op = "checkin_runsteps" ->
           \* data["fields"], then lines 647-659
           IF isObject
             THEN /\ pc' = "checkin_put"
                  /\ local' = [fields |-> CheckinFields(v.fields, arg)]
                  /\ UNCHANGED result
             ELSE /\ pc' = "idle"
                  /\ result' = Raised("TypeError")
                  /\ UNCHANGED local
      [] op = "add_tests_to_plan" ->
           \* group = groups[0]["id"], then the loop over tests
           IF isObject THEN /\ pc' = "idle"
                            /\ result' = Raised("KeyError")
                            /\ UNCHANGED local
           ELSE IF Len(v) = 0 THEN /\ pc' = "idle"
                                   /\ result' = Raised("IndexError")
                                   /\ UNCHANGED local
           ELSE /\ local' = [group |-> v[1].id, left |-> arg.tests]
                /\ IF arg.tests = 0
                     THEN pc' = "idle" /\ result' = Returned(v[1].id)
                     ELSE pc' = "add_post" /\ UNCHANGED result
      [] OTHER ->
           /\ pc' = "idle"
           /\ result' = Returned(v)
           /\ UNCHANGED local

\* ask_big's parameter field: the callers inside the library pass none ("data")
Field == IF "field" \in DOMAIN arg THEN arg.field ELSE "data"

\* d.update(e) on dicts
Update(d, e) ==
    [k \in DOMAIN d \cup DOMAIN e |-> IF k \in DOMAIN e THEN e[k] ELSE d[k]]

\* ask_big, lines 125-126 and 127-130: what the page adds to data.  With field
\* "linked" the values of resp["linked"]["items"], nothing when the envelope has no
\* "linked"; with "data" or "tc" the list resp["data"]
PageData(f, resp) ==
    IF f = "linked" THEN (IF resp.hasLinked THEN resp.linked ELSE <<>>)
    ELSE resp.data

\* ask_big, lines 131-132: with field "tc" and a "linked" table in the envelope,
\* tcmap.update({jtcid: tc["documentKey"] ...}); the document key of an item is its
\* name
TcMap(f, resp, tcmap) ==
    IF f = "tc" /\ resp.hasLinked
      THEN Update(tcmap, [i \in {resp.linked[k].id : k \in 1 .. Len(resp.linked)} |->
                            resp.linked[CHOOSE k \in 1 .. Len(resp.linked) :
                                           resp.linked[k].id = i].name])
      ELSE tcmap

\* what ask_big keeps of a decoded page envelope (the history of the call)
Seen(resp) ==
    [hasData |-> resp.hasData, isObject |-> resp.isObject, hasLinked |-> resp.hasLinked,
     hasTotal |-> resp.hasTotal, total |-> resp.total]

\* ask_big, lines 123-143, from the return of ask to the next page request or the
\* return
BigPage(r) ==
    LET resp == Json(r, start_at, max_results)
        f == Field
    IN
    /\ envelopes' = Append(envelopes, Seen(resp))
    /\ IF f \in {"data", "tc"} /\ ~resp.hasData
         THEN \* resp["data"] raises KeyError inside the try
              /\ pc' = "idle"
              /\ result' = Raised("Fatal error retrieving data from Jama")
              /\ UNCHANGED <<start_at, data, local>>
       ELSE IF f \in {"data", "tc"} /\ resp.isObject
         THEN \* if type(resp["data"]) is dict: return resp["data"]
              /\ BigReturn(resp.data, TRUE)
              /\ UNCHANGED <<start_at, data>>
       ELSE IF ~resp.hasTotal
         THEN \* resp["meta"]["pageInfo"]["totalResults"] raises KeyError outside the try
              /\ pc' = "idle"
              /\ result' = Raised("KeyError")
              /\ data' = Accumulate(data, PageData(f, resp))
              /\ start_at' = NextStartAt(start_at)
              /\ UNCHANGED local
         ELSE /\ data' = Accumulate(data, PageData(f, resp))
              /\ start_at' = NextStartAt(start_at)
              /\ IF LoopDone(start_at', resp.total)
                   THEN IF f = "tc"
                          THEN \* return(tcmap, data)
                               /\ pc' = "idle"
                               /\ result' = Returned([tcmap |-> TcMap(f, resp, local.tcmap),
                                                      data |-> data'])
                               /\ UNCHANGED local
                          ELSE BigReturn(data', FALSE)
                   ELSE /\ pc' = "big_loop"
                        /\ local' = IF f = "tc"
                                      THEN [tcmap |-> TcMap(f, resp, local.tcmap)]
                                      ELSE local
                        /\ UNCHANGED result

----------------------------------------------------------------------------
(* jama.ask *)

\* ask: response.status_code == 429
IsThrottled(status) == status = 429

\* ask: elif response.status_code >= 300
IsNonSuccess(status) == status >= 300

\* one requests.get sent at time `sent`, ending with outcome o at time `recv`
GetEntry(o, sent, recv) == [outcome |-> o, sent |-> sent, recv |-> recv]

\* An exception leaves ask (and rate_limited_function, before it records the call) and
\* propagates through every caller up to the user: no caller catches it.
Raise(e) ==
    /\ pc' = "idle"
    /\ result' = Raised(e)
    /\ UNCHANGED <<last_time_called, start_at, data, envelopes, local>>

\* ask goes on to position p
Goto(p) ==
    /\ pc' = p
    /\ UNCHANGED <<result, last_time_called, start_at, data, envelopes, local>>

\* ask returns response r at time t: rate_limited_function records the time and
\* returns r to the caller of ask, the user or ask_big
AskReturn(r, t) ==
    /\ last_time_called' = RecordCall(t)
    /\ IF caller = "top"
         THEN /\ pc' = "idle"
              /\ result' = Returned(r)
              /\ UNCHANGED <<start_at, data, envelopes, local>>
         ELSE BigPage(r)

\* (mutant) the retry after a connection failure waits like a throttled one
ConnRetryDelayBackoff == RetryDelayTicks

\* the time ask sleeps before the GET that follows a connection failure
ConnRetryDelay == 0

\* (mutant) the sleep before the throttling retry uses the rate limiter's interval
ThrottleDelayInterval == min_interval

\* the time ask sleeps after a 429 response
ThrottleDelay == RetryDelayTicks

\* rate_limited_function is entered at time t: it waits, then func (ask) starts
EnterAsk(t, from) ==
    /\ now' = StartAfterWait(t)
    /\ invocations' = Append(invocations, now')
    /\ pc' = "ask_get"
    /\ caller' = from
    /\ gets' = <<>>
    /\ response' = NoResponse
    /\ UNCHANGED <<last_time_called, lastReqAt, prevReqAt, nReq>>

\* The user calls ask(resource).
Ask(idle) ==
    /\ pc = "idle"
    /\ nOps < MaxOps
    /\ nOps' = nOps + 1
    /\ op' = "ask"
    /\ result' = NoResult
    /\ EnterAsk(now + idle, "top")
    /\ UNCHANGED <<server, name, arg, local>>
    /\ UNCHANGED bigVars
    /\ UNCHANGED writeVars

\* ask, lines 72-74: try: response = requests.get(...)
AskGet(o, lat) ==
    /\ pc = "ask_get"
    /\ now' = now + lat
    /\ gets' = Append(gets, GetEntry(o, now, now'))
    /\ lastReqAt' = now
    /\ prevReqAt' = lastReqAt
    /\ nReq' = nReq + 1
    /\ IF o = ConnErr
         THEN /\ Goto("ask_conn_retry")
              /\ UNCHANGED response
         ELSE /\ Goto("ask_check")
              /\ response' = [status |-> o]
    /\ UNCHANGED <<caller, invocations, pages>>
    /\ UNCHANGED opVars
    /\ UNCHANGED writeVars

\* ask, line 75: except ConnectionError: response = requests.get(...), outside any try
AskConnRetry(o, lat) ==
    /\ pc = "ask_conn_retry"
    /\ now' = now + ConnRetryDelay + lat
    /\ gets' = Append(gets, GetEntry(o, now + ConnRetryDelay, now'))
    /\ lastReqAt' = now + ConnRetryDelay
    /\ prevReqAt' = lastReqAt
    /\ nReq' = nReq + 1
    /\ IF o = ConnErr
         THEN /\ Raise(ConnectionError)
              /\ UNCHANGED response
         ELSE /\ Goto("ask_check")
              /\ response' = [status |-> o]
    /\ UNCHANGED <<caller, invocations, pages>>
    /\ UNCHANGED opVars
    /\ UNCHANGED writeVars

\* ask, lines 76-84: the status check of the response of lines 72-75
AskCheck ==
    /\ pc = "ask_check"
    /\ IF IsThrottled(response.status)
         THEN /\ now' = now + ThrottleDelay
              /\ Goto("ask_throttle_get")
         ELSE IF IsNonSuccess(response.status)
         THEN /\ Raise("Non-success code")
              /\ UNCHANGED now
         ELSE /\ AskReturn(response, now)
              /\ UNCHANGED now
    /\ UNCHANGED <<caller, response, gets, lastReqAt, prevReqAt, nReq, invocations, pages>>
    /\ UNCHANGED opVars
    /\ UNCHANGED writeVars

\* ask, lines 79-84: the GET after the throttling sleep, and what follows it
AskThrottleGet(o, lat) ==
    /\ pc = "ask_throttle_get"
    /\ now' = now + lat
    /\ gets' = Append(gets, GetEntry(o, now, now'))
    /\ lastReqAt' = now
    /\ prevReqAt' = lastReqAt
    /\ nReq' = nReq + 1
    /\ IF o = ConnErr
         THEN /\ Raise(ConnectionError)
              /\ UNCHANGED response
         ELSE IF IsThrottled(o)
         THEN /\ Raise("JAMA overload")
              /\ response' = [status |-> o]
         ELSE /\ AskReturn([status |-> o], now')
              /\ response' = [status |-> o]
    /\ UNCHANGED <<caller, invocations, pages>>
    /\ UNCHANGED opVars
    /\ UNCHANGED writeVars

----------------------------------------------------------------------------
(* jama.ask_big and jama.ask_id: the calls *)

\* ask_big, lines 115-120
EnterAskBig ==
    /\ start_at' = 0
    /\ data' = <<>>
    /\ pages' = <<>>
    /\ envelopes' = <<>>
    /\ pc' = "big_loop"
    /\ result' = NoResult

\* a top-level operation starts (one per behaviour)
StartOp(o, n, a) ==
    /\ pc = "idle"
    /\ nOps = 0
    /\ nOps' = nOps + 1
    /\ op' = o
    /\ name' = n
    /\ arg' = a
    /\ UNCHANGED server

\* The user calls ask_big(resource).
AskBig ==
    /\ StartOp("ask_big", name, arg)
    /\ EnterAskBig
    /\ UNCHANGED <<now, last_time_called, lastReqAt, prevReqAt, nReq, invocations, local>>
    /\ UNCHANGED askVars
    /\ UNCHANGED writeVars

\* The user calls ask_id(resource, n): resp = self.ask_big(resource, args)
AskId(n) ==
    /\ StartOp("ask_id", n, arg)
    /\ EnterAskBig
    /\ UNCHANGED <<now, last_time_called, lastReqAt, prevReqAt, nReq, invocations, local>>
    /\ UNCHANGED askVars
    /\ UNCHANGED writeVars

\* tcmap = {}
EmptyDict == <<>>

\* The user calls ask_big(resource, field=f).
AskBigField(f) ==
    /\ StartOp("ask_big", name, [field |-> f])
    /\ EnterAskBig
    /\ local' = [tcmap |-> EmptyDict]
    /\ UNCHANGED <<now, last_time_called, lastReqAt, prevReqAt, nReq, invocations>>
    /\ UNCHANGED askVars
    /\ UNCHANGED writeVars

\* Between two page requests of one ask_big call the server's resource changes: each
\* request is answered from what the server holds when it arrives.
ServerChange(sv) ==
    /\ pc = "big_loop"
    /\ Len(pages) >= 1
    /\ sv # server
    /\ server' = sv
    /\ UNCHANGED <<now, last_time_called, pc, result, lastReqAt, prevReqAt, nReq,
                   invocations, nOps, op, name, arg, local>>
    /\ UNCHANGED askVars
    /\ UNCHANGED bigVars
    /\ UNCHANGED writeVars

\* ask_big, lines 122-123: args["startAt"] = start_at; self.ask(fmt + urlencode(args))
BigRequest ==
    /\ pc = "big_loop"
    /\ Len(pages) < MaxPages
    /\ pages' = Append(pages, [startAt |-> start_at, maxResults |-> max_results])
    /\ EnterAsk(now, "ask_big")
    /\ UNCHANGED <<result, start_at, data, envelopes, local>>
    /\ UNCHANGED opVars
    /\ UNCHANGED writeVars

----------------------------------------------------------------------------
(* jama._request, put, post, _delete *)

\* _request, lines 92-95, called by put and post: one request and no retry.  The 401
\* check builds an Exception and drops it: nothing is raised and the response is
\* returned whatever its status.  A connection failure propagates.
RequestResult(w) ==
    IF w.status = ConnErr THEN Raised(ConnectionError) ELSE Returned(w)

\* _request sends at time t the request `method resource` with body json; the server
\* answers w.  A lock request the server accepts sets the test run's lock.
SendWrite(method, resource, json, w, t) ==
    /\ writes' = Append(writes, [method |-> method, resource |-> resource, json |-> json,
                                 status |-> w.status, body |-> w.body])
    /\ lastReqAt' = t
    /\ prevReqAt' = lastReqAt
    /\ nReq' = nReq + 1
    /\ locked' = IF resource = "lock" /\ w.status \in 200..299 THEN json.locked ELSE locked

\* The user calls put(resource, json) or post(resource, json).
Write(method, idle, w, lat) ==
    /\ pc = "idle"
    /\ nOps < MaxOps
    /\ nOps' = nOps + 1
    /\ op' = "write"
    /\ now' = now + idle + lat
    /\ SendWrite(method, "resource", [x |-> 0], w, now + idle)
    /\ result' = RequestResult(w)
    /\ UNCHANGED <<last_time_called, pc, invocations, server, name, arg, local>>
    /\ UNCHANGED askVars
    /\ UNCHANGED bigVars

\* The user calls _delete(resource): the argument `json` of the call to _request is
\* a name the module never binds, so evaluating it raises NameError before any request.
Delete(idle) ==
    /\ pc = "idle"
    /\ nOps < MaxOps
    /\ nOps' = nOps + 1
    /\ op' = "_delete"
    /\ now' = now + idle
    /\ result' = Raised("NameError")
    /\ UNCHANGED <<last_time_called, pc, lastReqAt, prevReqAt, nReq, invocations,
                   server, name, arg, local>>
    /\ UNCHANGED askVars
    /\ UNCHANGED bigVars
    /\ UNCHANGED writeVars

----------------------------------------------------------------------------
(* Operations on test runs and test plans *)

\* what a step between two requests of an operation leaves alone
StepFrame ==
    /\ UNCHANGED <<now, last_time_called, invocations>>
    /\ UNCHANGED askVars
    /\ UNCHANGED bigVars
    /\ UNCHANGED opVars

NoArg == [none |-> TRUE]

\* The user calls checkout_runsteps(testrun): lock_testrun sends PUT lock
\* {"locked": True} and drops the response, then run = self.ask_big(...).
Checkout(w) ==
    /\ StartOp("checkout_runsteps", name, NoArg)
    /\ SendWrite("PUT", "lock", [locked |-> TRUE], w, now)
    /\ IF w.status = ConnErr
         THEN /\ pc' = "idle"
              /\ result' = Raised(ConnectionError)
              /\ UNCHANGED bigVars
         ELSE EnterAskBig
    /\ UNCHANGED <<now, last_time_called, invocations, local>>
    /\ UNCHANGED askVars

\* The user calls checkin_runsteps(testrun, steps, tester, resulttext):
\* data = self.ask_big(f"/testruns/{testrun}")
Checkin(steps, tester, resulttext) ==
    /\ StartOp("checkin_runsteps", name,
               [steps |-> steps, tester |-> tester, resulttext |-> resulttext])
    /\ EnterAskBig
    /\ UNCHANGED <<now, last_time_called, lastReqAt, prevReqAt, nReq, invocations, local>>
    /\ UNCHANGED askVars
    /\ UNCHANGED writeVars

\* checkin_runsteps, line 660: resp = self.put(f"/testruns/{testrun}",
\* {"fields": fields}).json()
CheckinPut(w) ==
    /\ pc = "checkin_put"
    /\ SendWrite("PUT", "testrun", [fields |-> local.fields], w, now)
    /\ IF w.status = ConnErr
         THEN /\ pc' = "idle"
              /\ result' = Raised(ConnectionError)
              /\ UNCHANGED local
         ELSE IF w.body = "not_json"
         THEN \* .json() raises: the exception leaves checkin_runsteps
              /\ pc' = "idle"
              /\ result' = Raised("JSONDecodeError")
              /\ UNCHANGED local
         ELSE /\ pc' = "checkin_unlock"
              /\ local' = [fields |-> local.fields, resp |-> w]
              /\ UNCHANGED result
    /\ StepFrame

\* checkin_runsteps, lines 661-666: self.unlock_testrun(testrun) sends PUT lock
\* {"locked": False} and drops the response; then the check of resp["meta"]["status"]
CheckinUnlock(w) ==
    /\ pc = "checkin_unlock"
    /\ SendWrite("PUT", "lock", [locked |-> FALSE], w, now)
    /\ pc' = "idle"
    /\ result' = IF w.status = ConnErr THEN Raised(ConnectionError)
                 ELSE IF local.resp.body = "bad_request"
                 THEN Raised("checkin_runsteps ERROR")
                 ELSE Returned(local.resp)
    /\ UNCHANGED local
    /\ StepFrame

\* The user calls add_tests_to_plan(plan, tests, group) with n tests; group 0 is
\* None: groups = self.get_plangroups(plan)
AddTests(n, group) ==
    /\ StartOp("add_tests_to_plan", name, [tests |-> n, group |-> group])
    /\ IF group = 0
         THEN /\ EnterAskBig
              /\ UNCHANGED local
         ELSE /\ local' = [group |-> group, left |-> n]
              /\ IF n = 0
                   THEN pc' = "idle" /\ result' = Returned(group)
                   ELSE pc' = "add_post" /\ result' = NoResult
              /\ UNCHANGED bigVars
    /\ UNCHANGED <<now, last_time_called, lastReqAt, prevReqAt, nReq, invocations>>
    /\ UNCHANGED askVars
    /\ UNCHANGED writeVars

\* add_tests_to_plan, lines 542-547: one self.post per test, the response dropped;
\* after the last one, return group
AddPost(w) ==
    /\ pc = "add_post"
    /\ SendWrite("POST", "testcases", [testCase |-> local.left], w, now)
    /\ IF w.status = ConnErr
         THEN /\ pc' = "idle"
              /\ result' = Raised(ConnectionError)
              /\ UNCHANGED local
         ELSE /\ local' = [group |-> local.group, left |-> local.left - 1]
              /\ IF local.left = 1
                   THEN pc' = "idle" /\ result' = Returned(local.group)
                   ELSE pc' = "add_post" /\ UNCHANGED result
    /\ StepFrame

\* The user calls create_testcase(parent_id, name, description, steps, project) with
\* ids: resp = self.post("/items", json); test_case = resp.json()["meta"]["id"]; a
\* KeyError is caught and printed, and `return test_case` then reads a local that
\* was never bound
CreateTestcase(w) ==
    /\ StartOp("create_testcase", name, NoArg)
    /\ SendWrite("POST", "items", [fields |-> "testcase"], w, now)
    /\ pc' = "idle"
    /\ result' = IF w.status = ConnErr THEN Raised(ConnectionError)
                 ELSE IF w.body = "not_json" THEN Raised("JSONDecodeError")
                 ELSE IF w.body = "ok" THEN Returned(IdBase)
                 ELSE Raised("UnboundLocalError")
    /\ UNCHANGED <<now, last_time_called, invocations, local>>
    /\ UNCHANGED askVars
    /\ UNCHANGED bigVars

\* The user calls remove_testrun(testrun): return self._delete(f"/testruns/{testrun}").
\* _delete raises NameError when it evaluates its argument `json`, before _request is
\* entered: no request is sent.
RemoveTestrun ==
    /\ StartOp("remove_testrun", name, NoArg)
    /\ pc' = "idle"
    /\ result' = Raised("NameError")
    /\ UNCHANGED <<now, last_time_called, lastReqAt, prevReqAt, nReq, invocations, local>>
    /\ UNCHANGED askVars
    /\ UNCHANGED bigVars
    /\ UNCHANGED writeVars

----------------------------------------------------------------------------
(* jama.__init__, jama.get_lookup, jama.ask_dict *)

\* The site the client is constructed against: the releases of the project, the
\* picklists, the options of each picklist and the item types.  Ids are written as
\* strings of digits ("24"), which no name is, since one dict holds both as keys.
\* Within one collection the ids are distinct.
Releases ==
    { <<>>,
      <<[id |-> "1", name |-> "v1"]>>,
      <<[id |-> "1", name |-> "v1"], [id |-> "2", name |-> "v2"]>> }

Picklists ==
    { <<>>,
      <<[id |-> "7", name |-> "Status"]>>,
      <<[id |-> "6", name |-> "Priority"], [id |-> "7", name |-> "Status"]>> }

StatusOptions ==
    { <<>>,
      <<[id |-> "1", name |-> "Draft"]>>,
      <<[id |-> "3", name |-> "Draft"], [id |-> "4", name |-> "Approved"]>> }

PriorityOptions ==
    { <<[id |-> "4", name |-> "High"]>>,
      <<[id |-> "5", name |-> "High"], [id |-> "8", name |-> "Low"]>> }

Itemtypes ==
    { <<[id |-> "24", name |-> "TC", display |-> "Test Case"]>>,
      <<[id |-> "24", name |-> "TC", display |-> "Test Case"],
        [id |-> "25", name |-> "REQ", display |-> "Requirement"]>>,
      <<[id |-> "2", name |-> "TC", display |-> "Test Case"],
        [id |-> "25", name |-> "TC2", display |-> "Test Case"]>> }

Site(rel, pl, so, po, it) ==
    [kind |-> "site", total |-> 0, releases |-> rel, picklists |-> pl,
     options |-> [i \in {"6", "7"} |-> IF i = "7" THEN so ELSE po], itemtypes |-> it]

\* Python's None
None == "None"

\* (mutant) the dict keyed by the field, with the ids as values
AskDictByField(resp, field) ==
    [v \in {resp[k][field] : k \in 1 .. Len(resp)} |->
        resp[CHOOSE k \in 1 .. Len(resp) :
                /\ resp[k][field] = v
                /\ \A j \in 1 .. Len(resp) : resp[j][field] = v => j <= k].id]

\* ask_dict, line 184: {item["id"]: item[field] for item in resp}
AskDict(resp, field) ==
    [i \in {resp[k].id : k \in 1 .. Len(resp)} |->
        resp[CHOOSE k \in 1 .. Len(resp) :
                /\ resp[k].id = i
                /\ \A j \in 1 .. Len(resp) : resp[j].id = i => j <= k][field]]

\* get_lookup, line 314: {v: k for k, v in itemtypes.items()}, the dict itemtypes
\* being in the order of resp: a later item with the same value overwrites
Inverse(resp, field) ==
    [v \in {resp[k][field] : k \in 1 .. Len(resp)} |->
        resp[CHOOSE k \in 1 .. Len(resp) :
                /\ resp[k][field] = v
                /\ \A j \in 1 .. Len(resp) : resp[j][field] = v => j <= k].id]

\* get_lookup, lines 304-307 and on: lookup = {}; if not project: project =
\* self.project_id; if project: the releases are fetched first
EnterGetLookup(a) ==
    /\ local' = [lookup |-> EmptyDict, todo |-> a.picklists, plid |-> None]
    /\ pc' = IF (IF a.project = None THEN a.project_id ELSE a.project) # None
               THEN "lookup_releases"
             ELSE IF a.picklists # <<>> THEN "lookup_picklist"
             ELSE "lookup_itemtypes"
    /\ result' = NoResult

\* what a step of get_lookup leaves alone (the requests of its fetches are not traced)
LookupFrame ==
    /\ UNCHANGED <<now, last_time_called, lastReqAt, prevReqAt, nReq, invocations>>
    /\ UNCHANGED askVars
    /\ UNCHANGED bigVars
    /\ UNCHANGED writeVars

\* jama(base_url, username, password): self.project_id = None;
\* self.lookup = self.get_lookup()
Construct ==
    /\ StartOp("__init__", name,
               [picklists |-> <<"Status">>, project |-> None, project_id |-> None])
    /\ EnterGetLookup(arg')
    /\ LookupFrame

\* The user calls get_lookup(picklists, project) on a client whose project_id is
\* project_id.
GetLookup(picklists, project, project_id) ==
    /\ StartOp("get_lookup", name,
               [picklists |-> picklists, project |-> project, project_id |-> project_id])
    /\ EnterGetLookup(arg')
    /\ LookupFrame

\* a fetch of get_lookup failed: the exception ask raised leaves get_lookup
LookupFetchFails ==
    /\ pc \in {"lookup_releases", "lookup_picklist", "lookup_options", "lookup_itemtypes"}
    /\ pc' = "idle"
    /\ result' = Raised("Non-success code")
    /\ UNCHANGED local
    /\ UNCHANGED opVars
    /\ LookupFrame

\* get_lookup, line 308: lookup.update(self.ask_dict("/releases", args={"project": project}))
LookupReleases ==
    /\ pc = "lookup_releases"
    /\ local' = [local EXCEPT !.lookup = Update(@, AskDict(server.releases, "name"))]
    /\ pc' = IF arg.picklists # <<>> THEN "lookup_picklist" ELSE "lookup_itemtypes"
    /\ UNCHANGED result
    /\ UNCHANGED opVars
    /\ LookupFrame

\* get_lookup, line 310: plid = self.ask_id("/picklists", plist)
LookupPicklist ==
    /\ pc = "lookup_picklist"
    /\ LET r == AskIdResult(server.picklists, Head(local.todo)) IN
         IF r.kind = "raised"
           THEN /\ pc' = "idle"
                /\ result' = r
                /\ UNCHANGED local
           ELSE /\ pc' = "lookup_options"
                /\ local' = [local EXCEPT !.plid = r.value]
                /\ UNCHANGED result
    /\ UNCHANGED opVars
    /\ LookupFrame

\* get_lookup, line 311: lookup.update(self.ask_dict(f"/picklists/{plid}/options"));
\* with plid False the server has no such resource and ask raises
LookupOptions ==
    /\ pc = "lookup_options"
    /\ IF local.plid.py = "False"
         THEN /\ pc' = "idle"
              /\ result' = Raised("Non-success code")
              /\ UNCHANGED local
         ELSE /\ local' = [local EXCEPT
                             !.lookup = Update(@, AskDict(server.options[local.plid.int],
                                                          "name")),
                             !.todo = Tail(@)]
              /\ pc' = IF Tail(local.todo) # <<>> THEN "lookup_picklist"
                       ELSE "lookup_itemtypes"
              /\ UNCHANGED result
    /\ UNCHANGED opVars
    /\ LookupFrame

\* get_lookup, lines 312-315: itemtypes = self.ask_dict("/itemtypes",
\* field="display"); lookup.update(itemtypes); lookup.update({v: k ...}); return lookup
LookupItemtypes ==
    /\ pc = "lookup_itemtypes"
    /\ LET itemtypes == AskDict(server.itemtypes, "display")
            lookup == Update(Update(local.lookup, itemtypes),
                             Inverse(server.itemtypes, "display"))
       IN /\ local' = [local EXCEPT !.lookup = lookup]
          /\ result' = Returned(lookup)
    /\ pc' = "idle"
    /\ UNCHANGED opVars
    /\ LookupFrame

----------------------------------------------------------------------------
(* checkjamaactivity.py: the activity report *)

\* projects = {x['id']: x['fields']['name'] for x in presp}, in the dict's order
Projects == <<"p1", "p2">>

Users == {"A", "B", "C"}

\* the window of one day the script asks for, in seconds since 00:00:00Z of the day:
\* 'date': [f'{isodate}T00:00:00Z', f'{isodate}T23:59:29Z']
WindowStart == 0
WindowEnd == 23 * 3600 + 59 * 60 + 29

\* times of day at which the server's activities happen: at noon, and in the last
\* seconds of the day
TimesOfDay == {12 * 3600, 23 * 3600 + 59 * 60 + 45}

\* an activity (of one of the event types the script asks for) of one project on one
\* day
Activities == [user : Users, time : TimesOfDay]

\* what one project logged on one day
ActivityLists ==
    {<<>>} \cup {<<a>> : a \in Activities} \cup {<<a, b>> : a, b \in Activities}

\* the server's activity log as far as the script met it: per day, the users with an
\* activity on that day
ActivityLog(active) == [kind |-> "activities", total |-> 0, active |-> active]

\* the activities the server returns for the date range [from, to] of the query
InWindow(acts, from, to) ==
    SelectSeq(acts, LAMBDA a : from <= a.time /\ a.time <= to)

UsersOf(acts) == {acts[k].user : k \in 1 .. Len(acts)}

\* what a step of the script leaves alone (the requests of its fetches are not traced)
ReportFrame ==
    /\ UNCHANGED <<now, last_time_called, lastReqAt, prevReqAt, nReq, invocations>>
    /\ UNCHANGED <<nOps, op, name, arg>>
    /\ UNCHANGED askVars
    /\ UNCHANGED bigVars
    /\ UNCHANGED writeVars

\* The script starts, lines 25-35: the days of the window are 1 .. NumDays
\* (startdate .. enddate); totals = {}; checkdate = startdate
Report ==
    /\ pc = "idle"
    /\ nOps = 0
    /\ nOps' = nOps + 1
    /\ op' = "report"
    /\ pc' = "report_day"
    /\ result' = NoResult
    /\ local' = [checkdate |-> 1, totals |-> EmptyDict, userstoday |-> {},
                 todo |-> <<>>]
    /\ UNCHANGED <<now, last_time_called, lastReqAt, prevReqAt, nReq, invocations,
                   server, name, arg>>
    /\ UNCHANGED askVars
    /\ UNCHANGED bigVars
    /\ UNCHANGED writeVars

\* most = max(totals.values())
Most(totals) ==
    CHOOSE m \in {totals[d] : d \in DOMAIN totals} : \A d \in DOMAIN totals : totals[d] <= m

\* [x for x, y in totals.items() if y == most]
DaysWith(totals, most) == {d \in DOMAIN totals : totals[d] = most}

\* line 36, while checkdate <= enddate: userstoday = {}, and the loop over the
\* projects starts; after the last day, lines 53-54 print the day(s) with most users
ReportDay ==
    /\ pc = "report_day"
    /\ IF local.checkdate <= NumDays
         THEN /\ local' = [local EXCEPT !.userstoday = {}, !.todo = Projects]
              /\ pc' = "report_fetch"
              /\ UNCHANGED result
         ELSE /\ pc' = "idle"
              /\ result' = Returned([most |-> Most(local.totals),
                                     days |-> DaysWith(local.totals, Most(local.totals))])
              /\ UNCHANGED local
    /\ UNCHANGED server
    /\ ReportFrame

\* lines 39-46, one round of the loop over the projects: activities =
\* jam.ask_big('/activities', ...) for the day's window, then userstoday[act["user"]] =
\* True for each; acts is what the project logged on that day
ReportFetch(acts) ==
    /\ pc = "report_fetch"
    /\ local.todo # <<>>
    /\ LET activities == InWindow(acts, WindowStart, WindowEnd) IN
         local' = [local EXCEPT !.userstoday = @ \cup UsersOf(activities),
                                !.todo = Tail(@)]
    /\ server' = ActivityLog([server.active EXCEPT ![local.checkdate] = @ \cup UsersOf(acts)])
    /\ UNCHANGED <<pc, result>>
    /\ ReportFrame

\* the fetch of one project's activities failed: the exception ends the script
ReportFetchFails ==
    /\ pc = "report_fetch"
    /\ local.todo # <<>>
    /\ pc' = "idle"
    /\ result' = Raised("Non-success code")
    /\ UNCHANGED <<server, local>>
    /\ ReportFrame

\* lines 47-50, after the loop over the projects: count = len(list(userstoday.keys()));
\* the day's line is printed; totals[isodate] = count; checkdate = checkdate + 1 day
ReportCount ==
    /\ pc = "report_fetch"
    /\ local.todo = <<>>
    /\ local' = [local EXCEPT
                   !.totals = Put(@, local.checkdate, Cardinality(local.userstoday)),
                   !.checkdate = @ + 1]
    /\ pc' = "report_day"
    /\ UNCHANGED <<server, result>>
    /\ ReportFrame

----------------------------------------------------------------------------
(* Specifications *)

InitClient ==
    /\ now = Epoch
    /\ last_time_called = 0
    /\ pc = "idle"
    /\ caller = "top"
    /\ response = NoResponse
    /\ gets = <<>>
    /\ result = NoResult
    /\ lastReqAt = -1
    /\ prevReqAt = -1
    /\ nReq = 0
    /\ invocations = <<>>
    /\ nOps = 0
    /\ op = "none"
    /\ start_at = 0
    /\ data = <<>>
    /\ pages = <<>>
    /\ envelopes = <<>>
    /\ name = 0
    /\ arg = NoArg
    /\ local = NoArg
    /\ writes = <<>>

\* The client calling ask, put, post and _delete in any order.
Init ==
    /\ InitClient
    /\ server = Collection(0)
    /\ locked = FALSE

Next ==
    \/ \E idle \in 0..MaxIdle : Ask(idle)
    \/ \E o \in Outcomes, lat \in 0..MaxLatency : AskGet(o, lat)
    \/ \E o \in Outcomes, lat \in 0..MaxLatency : AskConnRetry(o, lat)
    \/ AskCheck
    \/ \E o \in Outcomes, lat \in 0..MaxLatency : AskThrottleGet(o, lat)
    \/ \E method \in {"PUT", "POST"}, idle \in 0..MaxIdle, w \in WriteOutcomes,
          lat \in 0..MaxLatency : Write(method, idle, w, lat)
    \/ \E idle \in 0..MaxIdle : Delete(idle)

Spec == Init /\ [][Next]_vars

\* One call of ask.
AskOnce(idle) == nOps = 0 /\ Ask(idle)

NextAsk ==
    \/ \E idle \in 0..MaxIdle : AskOnce(idle)
    \/ \E o \in Outcomes, lat \in 0..MaxLatency : AskGet(o, lat)
    \/ \E o \in Outcomes, lat \in 0..MaxLatency : AskConnRetry(o, lat)
    \/ AskCheck
    \/ \E o \in Outcomes, lat \in 0..MaxLatency : AskThrottleGet(o, lat)

SpecAsk == Init /\ [][NextAsk]_vars

\* One call of ask_big or of ask_id on a collection of the server.
InitBig ==
    /\ InitClient
    /\ server \in {Collection(t) : t \in 0..MaxTotal}
    /\ locked = FALSE

NextBig ==
    \/ AskBig
    \/ \E n \in Names : AskId(n)
    \/ BigRequest
    \/ \E o \in Outcomes : AskGet(o, 0)
    \/ \E o \in Outcomes : AskConnRetry(o, 0)
    \/ AskCheck
    \/ \E o \in Outcomes : AskThrottleGet(o, 0)

SpecBig == InitBig /\ [][NextBig]_vars

\* totalResults a page envelope may report
PageTotals == {0, max_results, max_results + 1, MaxTotal}

\* the fields a page envelope may hold: all of "data", "linked" and the total, or
\* all but one of them
FieldSets ==
    LET all == {"data", "linked", "total"} IN {all} \cup {all \ {x} : x \in all}

\* what the server may hold when a page request arrives: a collection, or a single
\* resource
PageServers ==
    {PageEnvelope(t, has) : t \in PageTotals, has \in FieldSets}
        \cup {Single([name |-> "run"])}

\* One call of ask_big with any field selector, the server's resource changing
\* between the page requests.
InitPages ==
    /\ InitClient
    /\ server \in PageServers
    /\ locked = FALSE

NextPages ==
    \/ \E f \in {"data", "linked", "tc"} : AskBigField(f)
    \/ \E sv \in PageServers : ServerChange(sv)
    \/ BigRequest
    \/ \E o \in Outcomes : AskGet(o, 0)
    \/ \E o \in Outcomes : AskConnRetry(o, 0)
    \/ AskCheck
    \/ \E o \in Outcomes : AskThrottleGet(o, 0)

SpecPages == InitPages /\ [][NextPages]_vars

\* The construction of a client, or one call of get_lookup, against a site.
InitLookup ==
    /\ InitClient
    /\ server \in {Site(rel, pl, so, po, it) :
                      rel \in Releases, pl \in Picklists, so \in StatusOptions,
                      po \in PriorityOptions, it \in Itemtypes}
    /\ locked = FALSE

NextLookup ==
    \/ Construct
    \/ \E picklists \in {<<>>, <<"Status">>, <<"Status", "Priority">>},
          project \in {None, "10"}, project_id \in {None, "10"} :
          GetLookup(picklists, project, project_id)
    \/ LookupFetchFails
    \/ LookupReleases
    \/ LookupPicklist
    \/ LookupOptions
    \/ LookupItemtypes

SpecLookup == InitLookup /\ [][NextLookup]_vars

\* One run of the activity report.
InitReport ==
    /\ InitClient
    /\ server = ActivityLog([d \in 1 .. NumDays |-> {}])
    /\ locked = FALSE

NextReport ==
    \/ Report
    \/ ReportDay
    \/ \E acts \in ActivityLists : ReportFetch(acts)
    \/ ReportFetchFails
    \/ ReportCount

SpecReport == InitReport /\ [][NextReport]_vars

\* One operation on a test run or a test plan: the server holds a test run, or the
\* (small) collection of a plan's test groups; the run may be locked already.
InitOps ==
    /\ InitClient
    /\ server \in {Single(f) : f \in TestrunFields}
                    \cup {Collection(t) : t \in 0..MaxGroups}
    /\ locked \in BOOLEAN

NextOps ==
    \/ \E w \in WriteOutcomes : Checkout(w)
    \/ \E steps \in StepLists, tester \in {0, IdBase}, text \in {"", "text"} :
          Checkin(steps, tester, text)
    \/ \E w \in WriteOutcomes : CheckinPut(w)
    \/ \E w \in WriteOutcomes : CheckinUnlock(w)
    \/ \E n \in 0..MaxTests, group \in {0, IdBase} : AddTests(n, group)
    \/ \E w \in WriteOutcomes : AddPost(w)
    \/ \E w \in WriteOutcomes : CreateTestcase(w)
    \/ RemoveTestrun
    \/ BigRequest
    \/ \E o \in Outcomes : AskGet(o, 0)
    \/ \E o \in Outcomes : AskConnRetry(o, 0)
    \/ AskCheck
    \/ \E o \in Outcomes : AskThrottleGet(o, 0)

SpecOps == InitOps /\ [][NextOps]_vars

----------------------------------------------------------------------------
(* Properties *)

Finished == pc = "idle" /\ result.kind # "none"

CeilDiv(a, b) == (a + b - 1) \div b

\* all items of the server's collection, in order
AllItems == [k \in 1 .. server.total |-> Item(k)]

\* the page requests are the first n pages: maxResults = 50, startAt = 50 * (k - 1)
FirstPages(n) ==
    /\ Len(pages) = n
    /\ \A k \in 1 .. n : pages[k] = [startAt |-> 50 * (k - 1), maxResults |-> 50]

AskBigReturned == op = "ask_big" /\ pc = "idle" /\ result.kind = "returned"

\* C1 as stated: for every total T, a returning ask_big call has issued exactly
\* ceil(T/50) page requests, the k-th with maxResults = 50 and startAt = 50*(k-1), and
\* returns the T items of the collection in order.  (Fails for T = 0: one request.)
C1_CeilPagesForEveryTotal ==
    AskBigReturned =>
        /\ FirstPages(CeilDiv(server.total, 50))
        /\ result.value = AllItems

\* C1 amended: a returning ask_big call has issued exactly max(1, ceil(T/50)) page
\* requests, the k-th with maxResults = 50 and startAt = 50*(k-1), and returns
\* exactly the T items of the collection, the pages' data lists in page order.
C1_PagedFetch ==
    LET n == IF server.total = 0 THEN 1 ELSE CeilDiv(server.total, 50) IN
    op = "ask_big" =>
        /\ Len(pages) <= n
        /\ \A k \in 1 .. Len(pages) : pages[k] = [startAt |-> 50 * (k - 1), maxResults |-> 50]
        /\ AskBigReturned =>
              /\ FirstPages(n)
              /\ Len(result.value) = server.total
              /\ result.value = AllItems

\* C1 witness: the 101 items of a collection fetched in three pages
C1_Witness ==
    /\ AskBigReturned
    /\ server.total = 101
    /\ Len(pages) = 3
    /\ pages[3].startAt = 100
    /\ Len(result.value) = 101

\* C2: with totalResults = 0 ask_big never issues a second page request, and when it
\* returns it has issued exactly one and returns the empty list; when the server
\* answers the first GET directly that is one HTTP request.
C2_EmptyTotal ==
    (op = "ask_big" /\ server.total = 0) =>
        /\ Len(pages) <= 1
        /\ AskBigReturned =>
              /\ Len(pages) = 1
              /\ result.value = <<>>
              /\ (Len(gets) = 1 => nReq = 1)

\* C2 witness: ask_big returned the empty list of an empty collection
C2_Witness ==
    /\ AskBigReturned
    /\ server.total = 0
    /\ nReq = 1
    /\ result.value = <<>>

\* the position in the current ask call of the first response (not a connection
\* failure), 0 when there is none yet
FirstResponseAt ==
    IF Len(gets) >= 1 /\ gets[1].outcome # ConnErr THEN 1
    ELSE IF Len(gets) >= 2 /\ gets[2].outcome # ConnErr THEN 2
    ELSE 0

AskFinished == op = "ask" /\ Finished

\* C3: when the first response of an ask call is a 429, exactly one further GET
\* follows, sent retry_delay after the 429 was received; if its response is not 429
\* the call returns that response, if it is 429 the call raises "JAMA overload";
\* there is no third throttling retry.
C3_ThrottleRetryOnce ==
    LET k == FirstResponseAt IN
    (op = "ask" /\ k > 0 /\ gets[k].outcome = 429) =>
        /\ Len(gets) <= k + 1
        /\ Len(gets) = k + 1 =>
              /\ gets[k + 1].sent - gets[k].recv = retry_delay * TicksPerSecond
              /\ Finished
              /\ gets[k + 1].outcome \in Statuses \ {429} =>
                    result = Returned([status |-> gets[k + 1].outcome])
              /\ gets[k + 1].outcome = 429 => result = Raised("JAMA overload")
        /\ Finished => Len(gets) = k + 1

\* C3 witness: a 429 followed by a 200 on the retry, returned to the caller
C3_Witness ==
    /\ AskFinished
    /\ Len(gets) = 2
    /\ gets[1].outcome = 429
    /\ gets[2].outcome = 200
    /\ result = Returned([status |-> 200])

\* C4: every response ask returns to its caller has a status below 300, also a
\* response obtained on the retry after a 429.
C4_ReturnedIsSuccess ==
    (op = "ask" /\ pc = "idle" /\ result.kind = "returned") => result.value.status < 300

\* the GETs of the current ask call that failed at connection level
ConnFailures == {k \in 1 .. Len(gets) : gets[k].outcome = ConnErr}

\* C5 as stated: every connection failure of a GET that is not a second consecutive
\* failure is retried, so a connection failure reaches the caller only after two
\* consecutive failures.
C5_EveryFirstFailureRetried ==
    (AskFinished /\ result = Raised(ConnectionError)) =>
        /\ Len(gets) >= 2
        /\ gets[Len(gets)].outcome = ConnErr
        /\ gets[Len(gets) - 1].outcome = ConnErr

\* C5 amended: a connection failure of the first GET of an ask call is retried
\* exactly once, at once and without sleeping; a connection failure of any later GET
\* (that retry, or the GET after the throttling sleep) is not retried and propagates
\* to the caller; so one ask call performs at most one connection-failure retry.
C5_ConnRetryOnce ==
    op = "ask" =>
        /\ (Len(gets) >= 2 /\ gets[1].outcome = ConnErr) => gets[2].sent = gets[1].recv
        /\ (Finished /\ Len(gets) >= 1 /\ gets[1].outcome = ConnErr) => Len(gets) >= 2
        /\ \A k \in ConnFailures :
              k >= 2 => /\ Len(gets) = k
                        /\ Finished
                        /\ result = Raised(ConnectionError)
        /\ Cardinality({k \in ConnFailures : k < Len(gets)}) <= 1

\* C5 witness: two consecutive connection failures, the second one propagated
C5_Witness ==
    /\ AskFinished
    /\ Len(gets) = 2
    /\ gets[1].outcome = ConnErr
    /\ gets[2].outcome = ConnErr
    /\ gets[2].sent = gets[1].recv
    /\ result = Raised(ConnectionError)

\* C6: any N consecutive invocations of the rate-limited function take at least
\* (N-1) * min_interval: the N-th starts at least that long after the first.
C6_SpacedInvocations ==
    Len(invocations) >= 1 =>
        invocations[Len(invocations)] - invocations[1]
            >= (Len(invocations) - 1) * min_interval

\* C7: any two outgoing HTTP requests are sent at least min_interval apart, whichever
\* operation sent them.
C7_GlobalThrottle ==
    prevReqAt >= 0 => lastReqAt - prevReqAt >= min_interval

AskIdFinished == op = "ask_id" /\ Finished

\* errors that leave ask_big before it returns
FetchErrors == {ConnectionError, "Non-success code", "JAMA overload",
                "Fatal error retrieving data from Jama"}

\* positions of the items of the server's collection whose name is n
Hits(n) == {k \in 1 .. server.total : Item(k).name = n}

\* C8: ask_id returns the id of the first item, in fetch order, whose field equals
\* the name; it raises "Could not find" when the fetched set is non-empty and has no
\* such item; it returns False when the fetched set is empty.
C8_AskId ==
    (AskIdFinished /\ result.error \notin FetchErrors) =>
        /\ data = AllItems
        /\ server.total = 0 => result = Returned(PyFalse)
        /\ (server.total > 0 /\ Hits(name) = {}) => result = Raised("Could not find")
        /\ \A k \in Hits(name) :
              (\A j \in Hits(name) : k <= j) => result = Returned(PyInt(Item(k).id))

\* C8 witness: the first match lies on the second page and further matches follow it
C8_Witness ==
    /\ AskIdFinished
    /\ result.kind = "returned"
    /\ result.value.py = "int"
    /\ \E k \in Hits(name) : k > 50 /\ k + 1 \in Hits(name)
                             /\ result.value.int = Item(k).id

\* the requests of the update (PUT /testruns/t) that reached the server
Submitted == {k \in 1 .. Len(writes) : writes[k].resource = "testrun"
                                        /\ writes[k].status # ConnErr}

\* C9: on every exit path of checkin_runsteps after the update was submitted, an
\* unlock request (PUT lock, locked = false) for the test run has been sent.
C9_AlwaysUnlocks ==
    (op = "checkin_runsteps" /\ Finished) =>
        \A k \in Submitted :
            \E j \in k + 1 .. Len(writes) :
                /\ writes[j].method = "PUT"
                /\ writes[j].resource = "lock"
                /\ writes[j].json = [locked |-> FALSE]

\* a failing outcome other than a 401 on a write met the operation: a write answered
\* with another status >= 300 or with a "Bad Request" envelope, or a read whose last
\* response has a status >= 300
FailingOutcome ==
    \/ \E k \in 1 .. Len(writes) :
          \/ writes[k].status >= 300 /\ writes[k].status # 401
          \/ writes[k].body = "bad_request"
    \/ Len(gets) > 0 /\ gets[Len(gets)].outcome >= 300

\* C10: an operation that met a failing outcome other than a 401 on a write ends by
\* raising an exception to its caller, never by returning.
C10_NoSilentFailure ==
    (Finished /\ FailingOutcome) => result.kind = "raised"

AskBigFinished == op = "ask_big" /\ Finished

\* the decoded envelope e (not a single object) lacks a field a fetch with selector f
\* reads: the selected field, "linked" for "linked" and "data" for "data" and "tc",
\* or meta.pageInfo.totalResults
LacksExpected(e, f) ==
    /\ ~e.isObject
    /\ \/ f = "linked" /\ ~e.hasLinked
       \/ f # "linked" /\ ~e.hasData
       \/ ~e.hasTotal

\* C11: whenever a page envelope of an ask_big call lacks a field the fetch expects
\* (the selected data/linked field or meta.pageInfo.totalResults), the call ends at
\* that page by raising the fatal error that names authentication failure, never
\* with another exception and never by going on or returning normally.
C11_MalformedIsFatal ==
    op = "ask_big" =>
        \A k \in 1 .. Len(envelopes) :
            LacksExpected(envelopes[k], Field) =>
                /\ Finished
                /\ result = Raised("Fatal error retrieving data from Jama")

\* the ask_big call returned a list (with field "tc", the pair of tcmap and the list)
AskBigReturnedList ==
    /\ AskBigReturned
    /\ \A k \in 1 .. Len(envelopes) : ~envelopes[k].isObject

\* C12: when an ask_big call over well-formed envelopes returns a list, also when the
\* totalResults the server reports differs between pages, the number of accumulated
\* items equals the total of the first page's envelope, and the k-th page request
\* had the offset 50 * (k - 1).
C12_CountIsFirstTotal ==
    (AskBigReturnedList /\ \A k \in 1 .. Len(envelopes) : ~LacksExpected(envelopes[k], Field))
        => /\ Len(data) = envelopes[1].total
           /\ \A k \in 1 .. Len(pages) : pages[k].startAt = max_results * (k - 1)

\* C14: in an ask_big call with field "data" or "tc", a page whose data is a single
\* object is the first page only: the call then returns that object after exactly one
\* page request, and no list accumulated from earlier pages is discarded.
C14_ObjectOnlyFirstPage ==
    (op = "ask_big" /\ Field \in {"data", "tc"}) =>
        \A k \in 1 .. Len(envelopes) :
            envelopes[k].isObject =>
                /\ k = 1
                /\ Len(pages) = 1
                /\ data = <<>>
                /\ AskBigReturned
                /\ result.value = [id |-> IdBase, fields |-> server.fields]

\* C15: whatever fields the fetched test run has, the fields checkin_runsteps submits
\* in its update PUT contain neither testRunStatus nor executionDate, and their
\* testRunSteps is the caller's step list.
C15_ManagedFieldsCleared ==
    op = "checkin_runsteps" =>
        \A k \in 1 .. Len(writes) :
            (writes[k].method = "PUT" /\ writes[k].resource = "testrun") =>
                /\ "testRunStatus" \notin DOMAIN writes[k].json.fields
                /\ "executionDate" \notin DOMAIN writes[k].json.fields
                /\ writes[k].json.fields.testRunSteps = arg.steps

\* C17: a finished remove_testrun(t) has sent exactly one HTTP request, a DELETE for
\* the test run, and when the server answered it with success the call returned the
\* response without error.
C17_RemoveTestrun ==
    (op = "remove_testrun" /\ Finished) =>
        /\ nReq = 1
        /\ Len(writes) = 1
        /\ writes[1].method = "DELETE"
        /\ writes[1].resource = "testrun"
        /\ writes[1].status \in 200 .. 299 =>
              result = Returned([status |-> writes[1].status, body |-> writes[1].body])

\* get_lookup returned its table (at construction it becomes self.lookup)
LookupReturned ==
    op \in {"__init__", "get_lookup"} /\ pc = "idle" /\ result.kind = "returned"

\* the project whose releases get_lookup fetches, None when there is none
LookupProject == IF arg.project = None THEN arg.project_id ELSE arg.project

Ids(resp) == {resp[k].id : k \in 1 .. Len(resp)}

\* the options of the i-th configured picklist
ConfiguredOptions(i) == server.options[FirstMatch(server.picklists, arg.picklists[i])]

\* the ids of the options of the configured picklists from the i-th on
OptionIdsFrom(i) ==
    UNION {Ids(ConfiguredOptions(j)) : j \in i .. Len(arg.picklists)}

\* C16 as stated: the table maps every release name to its id, every option label of
\* each configured picklist to its id, and every item type t in both directions,
\* lookup[display(t)] = id(t) and lookup[id(t)] = display(t).
C16_NamesToIds ==
    LookupReturned =>
        LET lookup == result.value IN
        /\ \A k \in 1 .. Len(server.releases) :
              /\ server.releases[k].name \in DOMAIN lookup
              /\ lookup[server.releases[k].name] = server.releases[k].id
        /\ \A i \in 1 .. Len(arg.picklists) :
              \A k \in 1 .. Len(ConfiguredOptions(i)) :
                  /\ ConfiguredOptions(i)[k].name \in DOMAIN lookup
                  /\ lookup[ConfiguredOptions(i)[k].name] = ConfiguredOptions(i)[k].id
        /\ \A k \in 1 .. Len(server.itemtypes) :
              /\ lookup[server.itemtypes[k].display] = server.itemtypes[k].id
              /\ lookup[server.itemtypes[k].id] = server.itemtypes[k].display

\* C16 amended: the table get_lookup returns has as keys the ids of the project's
\* releases (only when a project is given or set: none at construction), the ids of
\* the options of the configured picklists, the ids of the item types and their
\* display names.  It maps every item type id to its display name, every display name
\* to the id of the last item type carrying it (so both directions hold for item
\* types with distinct display names), every option id to its label unless an item
\* type or an option of a later picklist has the same id, and every release id to
\* its name unless an option or an item type has the same id.
C16_Lookup ==
    LookupReturned =>
        LET lookup == result.value
            types == server.itemtypes
            rels == IF LookupProject # None THEN server.releases ELSE <<>>
        IN
        /\ DOMAIN lookup = Ids(rels) \cup OptionIdsFrom(1) \cup Ids(types)
                              \cup {types[k].display : k \in 1 .. Len(types)}
        /\ \A k \in 1 .. Len(types) :
              /\ lookup[types[k].id] = types[k].display
              /\ (\A j \in k + 1 .. Len(types) : types[j].display # types[k].display)
                    => lookup[types[k].display] = types[k].id
        /\ \A i \in 1 .. Len(arg.picklists) :
              \A k \in 1 .. Len(ConfiguredOptions(i)) :
                  LET o == ConfiguredOptions(i)[k] IN
                  o.id \notin Ids(types) \cup OptionIdsFrom(i + 1) => lookup[o.id] = o.name
        /\ \A k \in 1 .. Len(rels) :
              rels[k].id \notin Ids(types) \cup OptionIdsFrom(1)
                  => lookup[rels[k].id] = rels[k].name

\* C16 witness: get_lookup with a project and two picklists returned a table with a
\* release, the options of both picklists and two item types
C16_Witness ==
    /\ LookupReturned
    /\ op = "get_lookup"
    /\ LookupProject = "10"
    /\ Len(arg.picklists) = 2
    /\ Len(server.releases) = 2
    /\ Len(server.itemtypes) = 2
    /\ result.value["2"] = "v2"
    /\ result.value["4"] = "High"
    /\ result.value["24"] = "Test Case"
    /\ result.value["Test Case"] = "24"

\* C13: the count the report holds for every day is the number of distinct users with
\* at least one activity on that day in any project, and the final line reports the
\* largest per-day count with exactly the days whose count equals it.
C13_DistinctUsersPerDay ==
    op = "report" =>
        /\ \A d \in DOMAIN local.totals :
              local.totals[d] = Cardinality(server.active[d])
        /\ result.kind = "returned" =>
              /\ \A d \in 1 .. NumDays : local.totals[d] <= result.value.most
              /\ result.value.days =
                    {d \in 1 .. NumDays : local.totals[d] = result.value.most}
              /\ result.value.days # {}

====
